---- MODULE Spec2Model ----
(***************************************************************************)
(* A model of src/dashboard.py: the StockPortfolio class (the holdings     *)
(* mapping, add_stock, remove_stock, the memoized get_current_price and    *)
(* generate_signals, calculate_portfolio_value and check_notifications)    *)
(* together with the market-data source it reads.                          *)
(*                                                                         *)
(* Conventions.  A Python str is a sequence of one-character strings.  A   *)
(* Python float is a record [nan, v]: NaN, or the exact amount v counted   *)
(* in tenths (150.00 is 1500).  An insertion-ordered dict is a sequence of *)
(* entries with distinct keys.  None is the record NoneVal.                *)
(***************************************************************************)
EXTENDS Integers, Sequences, FiniteSets, TLC

VARIABLES
    holdings,       \* st.session_state.holdings / StockPortfolio.holdings
    last,           \* the latest handler call: its name, arguments, the holdings before it, its return value and message
    market,         \* the data source: for each ticker what yf.Ticker(t).history answers
    priceCache,     \* st.cache_data's store for get_current_price
    signalCache,    \* st.cache_data's store for generate_signals
    now,            \* wall-clock time, in ticks
    ops,            \* the number of steps taken so far
    valuation,      \* what the latest calculate_portfolio_value returned
    notifications   \* what the latest check_notifications returned

vars == <<holdings, last, market, priceCache, signalCache, now, ops, valuation, notifications>>

---------------------------------------------------------------------------
(* Bounds of the model *)

\* steps explored from the seed portfolio by the store's operations
MaxStoreOps == 2
\* steps explored by the valuation scenario
MaxValueOps == 4
\* steps explored by the notification scenario
MaxNotifyOps == 4
\* calls explored by the signal scenario
MaxSignalOps == 2
\* steps explored by the caching scenario
MaxCacheOps == 5
\* the clock stops here
MaxClock == 2
\* closing prices at the pivotal days differ from the base by at most this much
MaxDelta == 1
\* the longest series has this many observations more than the long window
ExtraLen == 50
\* a memoized failure older than this many ticks is no longer "short-lived"
ShortTTL == 1

---------------------------------------------------------------------------
(* Python values *)

NoneVal == [kind |-> "none"]

NaN == [nan |-> TRUE, v |-> 0]

F(n) == [nan |-> FALSE, v |-> n]

\* IEEE comparisons: any comparison with NaN is False
Le(a, b) == ~a.nan /\ ~b.nan /\ a.v <= b.v

Lt(a, b) == ~a.nan /\ ~b.nan /\ a.v < b.v

Ge(a, b) == Le(b, a)

Gt(a, b) == Lt(b, a)

\* IEEE arithmetic: NaN propagates
FAdd(a, b) == IF a.nan \/ b.nan THEN NaN ELSE F(a.v + b.v)

FSub(a, b) == IF a.nan \/ b.nan THEN NaN ELSE F(a.v - b.v)

\* an int times a float
FScale(n, a) == IF a.nan THEN NaN ELSE F(n * a.v)

\* an argument as the caller passes it: a number (v tenths), float('nan'),
\* a string that is no number, or None
Num(v) == [kind |-> "num", v |-> v]

NanArg == [kind |-> "nan", v |-> 0]

StrArg == [kind |-> "str", v |-> 0]

NoneArg == [kind |-> "none", v |-> 0]

\* truncation toward zero of v tenths
Trunc(v) == IF v >= 0 THEN v \div 10 ELSE -((-v) \div 10)

\* int(x): the value, or the exception raised
IntOf(x) ==
    CASE x.kind = "num" -> [exc |-> "", v |-> Trunc(x.v)]
      [] x.kind = "nan" -> [exc |-> "ValueError", v |-> 0]
      [] x.kind = "str" -> [exc |-> "ValueError", v |-> 0]
      [] OTHER -> [exc |-> "TypeError", v |-> 0]

\* float(x): the value, or the exception raised
FloatOf(x) ==
    CASE x.kind = "num" -> [exc |-> "", v |-> F(x.v)]
      [] x.kind = "nan" -> [exc |-> "", v |-> NaN]
      [] x.kind = "str" -> [exc |-> "ValueError", v |-> NaN]
      [] OTHER -> [exc |-> "TypeError", v |-> NaN]

---------------------------------------------------------------------------
(* str.upper and str.strip *)

LowerCase == <<"a","b","c","d","e","f","g","h","i","j","k","l","m",
               "n","o","p","q","r","s","t","u","v","w","x","y","z">>

UpperCase == <<"A","B","C","D","E","F","G","H","I","J","K","L","M",
               "N","O","P","Q","R","S","T","U","V","W","X","Y","Z">>

UpperChar(c) ==
    IF \E i \in DOMAIN LowerCase : LowerCase[i] = c
    THEN UpperCase[CHOOSE i \in DOMAIN LowerCase : LowerCase[i] = c]
    ELSE c

Upper(s) == [i \in DOMAIN s |-> UpperChar(s[i])]

IsSpace(c) == c \in {" ", "\t", "\n"}

RECURSIVE LStrip(_)
LStrip(s) == IF s # <<>> /\ IsSpace(Head(s)) THEN LStrip(Tail(s)) ELSE s

RECURSIVE RStrip(_)
RStrip(s) ==
    IF s # <<>> /\ IsSpace(s[Len(s)]) THEN RStrip(SubSeq(s, 1, Len(s) - 1)) ELSE s

Strip(s) == RStrip(LStrip(s))

\* ticker.upper().strip()
Normalize(ticker) == Strip(Upper(ticker))

---------------------------------------------------------------------------
(* datetime.strptime(buy_date, '%Y-%m-%d') *)

\* a date string: whether it has the shape digits-digits-digits, and its fields
DateStr(shape, y, m, d) == [kind |-> "date", shape |-> shape, y |-> y, m |-> m, d |-> d]

IsLeap(y) == (y % 4 = 0 /\ y % 100 # 0) \/ y % 400 = 0

DaysIn(y, m) ==
    CASE m = 2 -> IF IsLeap(y) THEN 29 ELSE 28
      [] m \in {4, 6, 9, 11} -> 30
      [] OTHER -> 31

\* strptime succeeds
Parses(date) ==
    /\ date.shape
    /\ date.y \in 1..9999
    /\ date.m \in 1..12
    /\ date.d \in 1..DaysIn(date.y, date.m)

\* datetime.today().strftime('%Y-%m-%d')
Today == DateStr(TRUE, 2026, 1, 15)

---------------------------------------------------------------------------
(* The holdings dict *)

AAPL == <<"A","A","P","L">>

GOOGL == <<"G","O","O","G","L">>

MSFT == <<"M","S","F","T">>

Entry(t, shares, buy_price, buy_date) ==
    [ticker |-> t, shares |-> shares, buy_price |-> buy_price, buy_date |-> buy_date]

SeedHoldings ==
    << Entry(AAPL, 10, F(1500), DateStr(TRUE, 2025, 8, 1)),
       Entry(GOOGL, 5, F(25000), DateStr(TRUE, 2025, 8, 1)),
       Entry(MSFT, 8, F(3000), DateStr(TRUE, 2025, 8, 1)) >>

\* the dict's keys, in order
Keys(h) == [i \in DOMAIN h |-> h[i].ticker]

\* ticker in self.holdings
Has(h, t) == \E i \in DOMAIN h : h[i].ticker = t

IndexOf(h, t) == CHOOSE i \in DOMAIN h : h[i].ticker = t

\* self.holdings[ticker] = entry: an existing key keeps its place, a new one goes last
DictSet(h, e) ==
    IF Has(h, e.ticker)
    THEN [h EXCEPT ![IndexOf(h, e.ticker)] = e]
    ELSE Append(h, e)

\* del self.holdings[ticker]
DictDel(h, t) == SelectSeq(h, LAMBDA e : e.ticker # t)

---------------------------------------------------------------------------
(* StockPortfolio.add_stock and StockPortfolio.remove_stock *)

\* st.error / st.warning: the message shown, with the ticker it names
Message(level, t, text) == [level |-> level, ticker |-> t, text |-> text]

NoMessage == [level |-> "none", ticker |-> <<>>, text |-> ""]

Outcome(h, ret, msg) == [holdings |-> h, ret |-> ret, msg |-> msg]

\* the except clauses: ValueError and every other exception return False
Caught(h, t, exc, text) ==
    Outcome(h, FALSE,
            Message("error", t, IF exc = "ValueError" THEN text ELSE "Unexpected error"))

\* add_stock with the entry written before the date is parsed
add_stock_writes_first(h, ticker, shares, buy_price, buy_date) ==
    LET t == Normalize(ticker)
        s == IntOf(shares)
        p == FloatOf(buy_price)
    IN  IF s.exc # "" THEN Caught(h, t, s.exc, "invalid literal for int()")
        ELSE IF p.exc # "" THEN Caught(h, t, p.exc, "could not convert string to float")
        ELSE IF s.v <= 0 THEN Caught(h, t, "ValueError", "Number of shares must be positive.")
        ELSE IF Le(p.v, F(0)) THEN Caught(h, t, "ValueError", "Buy price must be positive.")
        ELSE IF buy_date.kind # "none" /\ ~Parses(buy_date)
             THEN Caught(DictSet(h, Entry(t, s.v, p.v, buy_date)), t, "ValueError",
                         "time data does not match format '%Y-%m-%d'")
        ELSE Outcome(DictSet(h, Entry(t, s.v, p.v,
                                      IF buy_date.kind = "none" THEN Today ELSE buy_date)),
                     TRUE, NoMessage)

\* add_stock with the new shares added to those already held
add_stock_merges(h, ticker, shares, buy_price, buy_date) ==
    LET t == Normalize(ticker)
        s == IntOf(shares)
        p == FloatOf(buy_price)
        held == IF Has(h, t) THEN h[IndexOf(h, t)].shares ELSE 0
    IN  IF s.exc # "" THEN Caught(h, t, s.exc, "invalid literal for int()")
        ELSE IF p.exc # "" THEN Caught(h, t, p.exc, "could not convert string to float")
        ELSE IF s.v <= 0 THEN Caught(h, t, "ValueError", "Number of shares must be positive.")
        ELSE IF Le(p.v, F(0)) THEN Caught(h, t, "ValueError", "Buy price must be positive.")
        ELSE IF buy_date.kind # "none" /\ ~Parses(buy_date)
             THEN Caught(h, t, "ValueError", "time data does not match format '%Y-%m-%d'")
        ELSE Outcome(DictSet(h, Entry(t, held + s.v, p.v,
                                      IF buy_date.kind = "none" THEN Today ELSE buy_date)),
                     TRUE, NoMessage)

add_stock(h, ticker, shares, buy_price, buy_date) ==
    LET t == Normalize(ticker)
        s == IntOf(shares)
        p == FloatOf(buy_price)
    IN  IF s.exc # "" THEN Caught(h, t, s.exc, "invalid literal for int()")
        ELSE IF p.exc # "" THEN Caught(h, t, p.exc, "could not convert string to float")
        ELSE IF s.v <= 0 THEN Caught(h, t, "ValueError", "Number of shares must be positive.")
        ELSE IF Le(p.v, F(0)) THEN Caught(h, t, "ValueError", "Buy price must be positive.")
        ELSE IF buy_date.kind # "none" /\ ~Parses(buy_date)
             THEN Caught(h, t, "ValueError", "time data does not match format '%Y-%m-%d'")
        ELSE Outcome(DictSet(h, Entry(t, s.v, p.v,
                                      IF buy_date.kind = "none" THEN Today ELSE buy_date)),
                     TRUE, NoMessage)

\* remove_stock looking the ticker up as it was typed
remove_stock_raw(h, ticker) ==
    IF Has(h, ticker)
    THEN Outcome(DictDel(h, ticker), TRUE, NoMessage)
    ELSE Outcome(h, FALSE, Message("warning", ticker, "not found in portfolio."))

remove_stock(h, ticker) ==
    LET t == Normalize(ticker)
    IN  IF Has(h, t)
        THEN Outcome(DictDel(h, t), TRUE, NoMessage)
        ELSE Outcome(h, FALSE, Message("warning", t, "not found in portfolio."))

\* the arguments the callers of the store try
TickerArgs ==
    { <<"a","a","p","l">>, <<" ","A","A","P","L"," ">>, <<"T","S","L","A">> }

RemoveArgs ==
    { AAPL, <<"a","a","p","l">>, <<"m","s","f","t"," ">>, <<"g","o","o","g","l">>,
      <<"\t","t","s","l","a">> }

SharesArgs == { Num(-10), Num(5), Num(20), Num(25), StrArg }

PriceArgs == { Num(0), Num(1000), NanArg, NoneArg }

DateArgs ==
    { NoneVal, DateStr(TRUE, 2025, 9, 1), DateStr(TRUE, 2025, 2, 30),
      DateStr(FALSE, 2025, 9, 1) }

AddStock(ticker, shares, buy_price, buy_date) ==
    LET r == add_stock(holdings, ticker, shares, buy_price, buy_date)
    IN  /\ holdings' = r.holdings
        /\ last' = [op |-> "add_stock",
                    args |-> [ticker |-> ticker, shares |-> shares,
                              buy_price |-> buy_price, buy_date |-> buy_date],
                    before |-> holdings, ret |-> r.ret, msg |-> r.msg]
        /\ ops' = ops + 1
        /\ UNCHANGED <<market, priceCache, signalCache, now, valuation, notifications>>

RemoveStock(ticker) ==
    LET r == remove_stock(holdings, ticker)
    IN  /\ holdings' = r.holdings
        /\ last' = [op |-> "remove_stock", args |-> [ticker |-> ticker],
                    before |-> holdings, ret |-> r.ret, msg |-> r.msg]
        /\ ops' = ops + 1
        /\ UNCHANGED <<market, priceCache, signalCache, now, valuation, notifications>>

---------------------------------------------------------------------------
(* The market-data source: yf.Ticker(ticker).history(period=...) *)

\* len(hist) < 200
MinObservations == 200
\* rolling(window=50)
ShortWindow == 50
\* rolling(window=200)
LongWindow == 200

\* What the source answers for one ticker.  kind is "raise" (the call raises),
\* "malformed" (a frame of len rows with no Close column) or "data": a series
\* of len daily closes, all equal to base except on the pivotal days, where the
\* close is base plus the given difference (or is missing, NaN).  The pivotal
\* days are the last one (d1), the one before (d2) and the two days that leave
\* the short and the long window when the last day enters (dS, dL).
Feed(kind, len, base, d1, d2, dS, dL) ==
    [kind |-> kind, len |-> len, base |-> base, d1 |-> d1, d2 |-> d2, dS |-> dS, dL |-> dL]

\* the close of the k-th day counted from the end of the series
CloseFromEnd(feed, k) ==
    CASE k = 1 -> FAdd(F(feed.base), feed.d1)
      [] k = 2 -> FAdd(F(feed.base), feed.d2)
      [] k = ShortWindow + 1 -> FAdd(F(feed.base), feed.dS)
      [] k = LongWindow + 1 -> FAdd(F(feed.base), feed.dL)
      [] OTHER -> F(feed.base)

\* hist['Close'], oldest first
Closes(feed) == [i \in 1..feed.len |-> CloseFromEnd(feed, feed.len - i + 1)]

\* a symbol the source does not know: an empty frame
EmptyFeed == Feed("data", 0, 0, F(0), F(0), F(0), F(0))

Quote(mkt, t) == IF t \in DOMAIN mkt THEN mkt[t] ELSE EmptyFeed

---------------------------------------------------------------------------
(* StockPortfolio.get_current_price *)

IsNone(x) == "kind" \in DOMAIN x /\ x.kind = "none"

\* the body of get_current_price: the last close of history(period='1d'), or None
get_current_price(feed) ==
    IF feed.kind = "raise" THEN NoneVal
    ELSE IF feed.len = 0 THEN NoneVal
    ELSE IF feed.kind = "malformed" THEN NoneVal
    ELSE Closes(feed)[feed.len]

\* @st.cache_data: no ttl and no max_entries, so an entry is kept for good.
\* The key is the ticker: the other argument, self, holds only the holdings,
\* and wherever the holdings change here the source's answers do not, so a key
\* that also covered the holdings would return the same values.
\* An entry also records when it was computed (st.cache_data keeps no such time:
\* it is here so that the age of an answer can be stated).
CachePut(cache, key, value, time) ==
    [k \in DOMAIN cache \cup {key} |->
        IF k = key THEN [value |-> value, at |-> time] ELSE cache[k]]

\* a call through the decorator: the value returned and the cache afterwards
Memo(cache, key, computed, time) ==
    IF key \in DOMAIN cache
    THEN [value |-> cache[key].value, cache |-> cache]
    ELSE [value |-> computed, cache |-> CachePut(cache, key, computed, time)]

---------------------------------------------------------------------------
(* StockPortfolio.generate_signals *)

Signal(action, reason, t) == [action |-> action, reason |-> reason, ticker |-> t]

RECURSIVE SumCloses(_, _, _)
\* close[lo] + ... + close[hi]
SumCloses(close, lo, hi) ==
    IF lo > hi THEN F(0)
    ELSE IF lo = hi THEN close[lo]
    ELSE LET mid == (lo + hi) \div 2
         IN  FAdd(SumCloses(close, lo, mid), SumCloses(close, mid + 1, hi))

\* means are held as multiples of 1/MeanScale, so that both are exact integers
MeanScale == ShortWindow * LongWindow

\* a rolling mean that averages whatever observations a short window holds
RollingMean_partial(close, w, i) ==
    IF i < 1 THEN NaN
    ELSE IF i < w THEN FScale(MeanScale \div i, SumCloses(close, 1, i))
    ELSE FScale(MeanScale \div w, SumCloses(close, i - w + 1, i))

\* close.rolling(window=w).mean().iloc[i-1] (i counts from 1): NaN unless the
\* window holds w observations, none of them NaN
RollingMean(close, w, i) ==
    IF i < w THEN NaN
    ELSE FScale(MeanScale \div w, SumCloses(close, i - w + 1, i))

\* the crossover rule with strict comparisons on the previous day too
Crossover_strict(t, sma50_prev, sma200_prev, sma50_latest, sma200_latest) ==
    IF sma50_latest.nan \/ sma200_latest.nan THEN Signal("Hold", "Invalid", t)
    ELSE IF Lt(sma50_prev, sma200_prev) /\ Gt(sma50_latest, sma200_latest)
         THEN Signal("Buy", "GoldenCross", t)
    ELSE IF Gt(sma50_prev, sma200_prev) /\ Lt(sma50_latest, sma200_latest)
         THEN Signal("Sell", "DeathCross", t)
    ELSE Signal("Hold", "Neutral", t)

\* the crossover rule of the body, on the four means
Crossover(t, sma50_prev, sma200_prev, sma50_latest, sma200_latest) ==
    IF sma50_latest.nan \/ sma200_latest.nan THEN Signal("Hold", "Invalid", t)
    ELSE IF Le(sma50_prev, sma200_prev) /\ Gt(sma50_latest, sma200_latest)
         THEN Signal("Buy", "GoldenCross", t)
    ELSE IF Ge(sma50_prev, sma200_prev) /\ Lt(sma50_latest, sma200_latest)
         THEN Signal("Sell", "DeathCross", t)
    ELSE Signal("Hold", "Neutral", t)

\* generate_signals with the length guard off by one
generate_signals_lenient(t, feed) ==
    IF feed.kind = "raise" THEN Signal("Hold", "Error", t)
    ELSE IF feed.len < MinObservations - 1 THEN Signal("Hold", "Insufficient", t)
    ELSE IF feed.kind = "malformed" THEN Signal("Hold", "Error", t)
    ELSE LET close == Closes(feed)
             n == feed.len
         IN  Crossover(t, RollingMean(close, ShortWindow, n - 1),
                          RollingMean(close, LongWindow, n - 1),
                          RollingMean(close, ShortWindow, n),
                          RollingMean(close, LongWindow, n))

\* the body of generate_signals, given what history(period='1y') answers
generate_signals(t, feed) ==
    IF feed.kind = "raise" THEN Signal("Hold", "Error", t)
    ELSE IF feed.len < MinObservations THEN Signal("Hold", "Insufficient", t)
    ELSE IF feed.kind = "malformed" THEN Signal("Hold", "Error", t)
    ELSE LET close == Closes(feed)
             n == feed.len
         IN  Crossover(t, RollingMean(close, ShortWindow, n - 1),
                          RollingMean(close, LongWindow, n - 1),
                          RollingMean(close, ShortWindow, n),
                          RollingMean(close, LongWindow, n))

---------------------------------------------------------------------------
(* StockPortfolio.calculate_portfolio_value *)

Row(info, current_price) ==
    [Ticker |-> info.ticker, Shares |-> info.shares, BuyPrice |-> info.buy_price,
     CurrentPrice |-> current_price,
     Value |-> FScale(info.shares, current_price),
     Profit |-> FScale(info.shares, FSub(current_price, info.buy_price))]

\* the loop body with the profit of one share for the profit of the position
ValueStep_per_share(acc, info, mkt, time) ==
    LET m == Memo(acc.cache, info.ticker, get_current_price(Quote(mkt, info.ticker)), time)
    IN  IF IsNone(m.value)
        THEN [acc EXCEPT !.cache = m.cache]
        ELSE LET row == [Row(info, m.value) EXCEPT
                            !.Profit = FSub(m.value, info.buy_price)]
             IN  [cache |-> m.cache,
                  total_value |-> FAdd(acc.total_value, row.Value),
                  total_profit |-> FAdd(acc.total_profit, row.Profit),
                  data |-> Append(acc.data, row)]

\* one turn of the for loop
ValueStep(acc, info, mkt, time) ==
    LET m == Memo(acc.cache, info.ticker, get_current_price(Quote(mkt, info.ticker)), time)
    IN  IF IsNone(m.value)
        THEN [acc EXCEPT !.cache = m.cache]
        ELSE LET row == Row(info, m.value)
             IN  [cache |-> m.cache,
                  total_value |-> FAdd(acc.total_value, row.Value),
                  total_profit |-> FAdd(acc.total_profit, row.Profit),
                  data |-> Append(acc.data, row)]

RECURSIVE ValueLoop(_, _, _, _, _)
\* the for loop over self.holdings.items(), from the i-th item on
ValueLoop(h, i, acc, mkt, time) ==
    IF i > Len(h) THEN acc
    ELSE ValueLoop(h, i + 1, ValueStep(acc, h[i], mkt, time), mkt, time)

calculate_portfolio_value(h, cache, mkt, time) ==
    ValueLoop(h, 1, [cache |-> cache, total_value |-> F(0), total_profit |-> F(0),
                     data |-> <<>>], mkt, time)

---------------------------------------------------------------------------
(* StockPortfolio.check_notifications *)

EmptyNote == [action |-> "Info", reason |-> "PortfolioEmpty", ticker |-> <<>>]

RECURSIVE NotifyLoop(_, _, _, _, _)
\* the for loop over self.holdings, from the i-th key on
NotifyLoop(h, i, acc, mkt, time) ==
    IF i > Len(h) THEN acc
    ELSE LET t == h[i].ticker
             m == Memo(acc.cache, t, generate_signals(t, Quote(mkt, t)), time)
         IN  NotifyLoop(h, i + 1,
                        [cache |-> m.cache, notes |-> Append(acc.notes, m.value)],
                        mkt, time)

\* check_notifications leaving out the tickers whose history cannot be read
check_notifications_skips(h, cache, mkt, time) ==
    IF h = <<>> THEN [cache |-> cache, notes |-> <<EmptyNote>>]
    ELSE NotifyLoop(SelectSeq(h, LAMBDA e : Quote(mkt, e.ticker).kind = "data"), 1,
                    [cache |-> cache, notes |-> <<>>], mkt, time)

check_notifications(h, cache, mkt, time) ==
    IF h = <<>> THEN [cache |-> cache, notes |-> <<EmptyNote>>]
    ELSE NotifyLoop(h, 1, [cache |-> cache, notes |-> <<>>], mkt, time)

---------------------------------------------------------------------------
(* The handlers as steps *)

NoArgs == [ticker |-> <<>>]

CalculatePortfolioValue ==
    LET r == calculate_portfolio_value(holdings, priceCache, market, now)
    IN  /\ valuation' = [total_value |-> r.total_value, total_profit |-> r.total_profit,
                         df |-> r.data]
        /\ priceCache' = r.cache
        /\ last' = [op |-> "calculate_portfolio_value", args |-> NoArgs,
                    before |-> holdings, ret |-> TRUE, msg |-> NoMessage]
        /\ ops' = ops + 1
        /\ UNCHANGED <<holdings, market, signalCache, now, notifications>>

CheckNotifications ==
    LET r == check_notifications(holdings, signalCache, market, now)
    IN  /\ notifications' = r.notes
        /\ signalCache' = r.cache
        /\ last' = [op |-> "check_notifications", args |-> NoArgs,
                    before |-> holdings, ret |-> TRUE, msg |-> NoMessage]
        /\ ops' = ops + 1
        /\ UNCHANGED <<holdings, market, priceCache, now, valuation>>

\* a direct call of the memoized generate_signals
GenerateSignals(ticker) ==
    LET m == Memo(signalCache, ticker, generate_signals(ticker, Quote(market, ticker)), now)
    IN  /\ signalCache' = m.cache
        /\ last' = [op |-> "generate_signals", args |-> [ticker |-> ticker],
                    before |-> holdings, ret |-> m.value, msg |-> NoMessage]
        /\ ops' = ops + 1
        /\ UNCHANGED <<holdings, market, priceCache, now, valuation, notifications>>

\* the source starts answering differently for one ticker
SourceChange(t, feed) ==
    /\ market[t] # feed
    /\ market' = [market EXCEPT ![t] = feed]
    /\ last' = [op |-> "source_change", args |-> [ticker |-> t], before |-> holdings,
                ret |-> FALSE, msg |-> NoMessage]
    /\ ops' = ops + 1
    /\ UNCHANGED <<holdings, priceCache, signalCache, now, valuation, notifications>>

\* time passes
Tick ==
    /\ now < MaxClock
    /\ now' = now + 1
    /\ last' = [op |-> "tick", args |-> NoArgs, before |-> holdings, ret |-> FALSE,
                msg |-> NoMessage]
    /\ ops' = ops + 1
    /\ UNCHANGED <<holdings, market, priceCache, signalCache, valuation, notifications>>

---------------------------------------------------------------------------
(* The state after construction *)

NoValuation == [total_value |-> F(0), total_profit |-> F(0), df |-> <<>>]

InitProgram ==
    /\ holdings = SeedHoldings
    /\ last = [op |-> "init", args |-> NoArgs, before |-> <<>>, ret |-> FALSE,
               msg |-> NoMessage]
    /\ priceCache = <<>>
    /\ signalCache = <<>>
    /\ now = 0
    /\ ops = 0
    /\ valuation = NoValuation
    /\ notifications = <<>>

Seeds == { SeedHoldings[i].ticker : i \in DOMAIN SeedHoldings }

\* three answers of the source: it raises; it knows no such symbol; a year of
\* closes at 120.0 whose last day is up by a tenth
RaiseFeed == Feed("raise", 0, 0, F(0), F(0), F(0), F(0))

CrossFeed == Feed("data", LongWindow + 1, 1200, F(1), F(0), F(0), F(0))

CannedFeeds == { RaiseFeed, EmptyFeed, CrossFeed }

---------------------------------------------------------------------------
(* The portfolio store on its own: add_stock and remove_stock with every
   argument, from the seed portfolio *)

InitStore == InitProgram /\ market = [t \in Seeds |-> CrossFeed]

NextStore ==
    \/ /\ ops < MaxStoreOps
       /\ \E ticker \in TickerArgs, shares \in SharesArgs,
             buy_price \in PriceArgs, buy_date \in DateArgs :
               AddStock(ticker, shares, buy_price, buy_date)
    \/ /\ ops < MaxStoreOps
       /\ \E ticker \in RemoveArgs : RemoveStock(ticker)

SpecStore == InitStore /\ [][NextStore]_vars

---------------------------------------------------------------------------
(* Claims about the portfolio store, checked under SpecStore *)

TSLA == <<"T","S","L","A">>

\* the symbol each argument of the store's callers stands for
SymbolOf(ticker) ==
    CASE ticker \in { AAPL, <<"a","a","p","l">>, <<" ","A","A","P","L"," ">> } -> AAPL
      [] ticker = <<"m","s","f","t"," ">> -> MSFT
      [] ticker = <<"g","o","o","g","l">> -> GOOGL
      [] ticker \in { TSLA, <<"\t","t","s","l","a">> } -> TSLA

\* the positions of h stored under symbol t
Under(h, t) == { i \in DOMAIN h : h[i].ticker = t }

\* C1: in every state reached from the seed portfolio by add_stock and
\* remove_stock calls with any arguments, every stored position has
\* shares > 0 and buy_price > 0.
C1_PositionsPositive ==
    \A i \in DOMAIN holdings :
        holdings[i].shares > 0 /\ Gt(holdings[i].buy_price, F(0))

\* an add_stock call that fails validation: shares <= 0 after int(), buy_price
\* <= 0 after float(), a coercion that raises, or a date that does not parse
FailsValidation(a) ==
    \/ a.shares.kind # "num" \/ Trunc(a.shares.v) <= 0
    \/ a.buy_price.kind \notin {"num", "nan"}
    \/ (a.buy_price.kind = "num" /\ a.buy_price.v <= 0)
    \/ (a.buy_date.kind = "date" /\ ~Parses(a.buy_date))

\* C2: an add_stock call that fails validation returns False with an error
\* message for the ticker and leaves the holdings exactly as they were,
\* the existing position of that ticker included.
C2_InvalidAddChangesNothing ==
    (last.op = "add_stock" /\ FailsValidation(last.args)) =>
        /\ last.ret = FALSE
        /\ last.msg.level = "error"
        /\ last.msg.ticker = SymbolOf(last.args.ticker)
        /\ holdings = last.before

C2_Witness ==
    /\ last.op = "add_stock"
    /\ FailsValidation(last.args)
    /\ last.args.shares.kind = "num" /\ Trunc(last.args.shares.v) > 0
    /\ last.args.buy_price.kind = "num" /\ last.args.buy_price.v > 0
    /\ Has(last.before, SymbolOf(last.args.ticker))
    /\ last.ret = FALSE

\* a valid call: a positive whole number of shares, a positive price, and no
\* date or one that parses
ValidAdd(a) ==
    /\ a.shares.kind = "num" /\ a.shares.v > 0 /\ a.shares.v % 10 = 0
    /\ a.buy_price.kind = "num" /\ a.buy_price.v > 0
    /\ (a.buy_date.kind = "date" => Parses(a.buy_date))

\* C3: after a valid add_stock the holdings have exactly one entry for the
\* symbol the ticker stands for ("aapl", " AAPL " and "AAPL" are one symbol),
\* holding exactly the shares and the price given: an earlier position is
\* replaced, not merged; every other entry is as before.
C3_ValidAddUpserts ==
    (last.op = "add_stock" /\ ValidAdd(last.args)) =>
        LET t == SymbolOf(last.args.ticker)
        IN  /\ last.ret = TRUE
            /\ Cardinality(Under(holdings, t)) = 1
            /\ \A i \in Under(holdings, t) :
                  /\ holdings[i].shares * 10 = last.args.shares.v
                  /\ holdings[i].buy_price = F(last.args.buy_price.v)
            /\ \A j \in DOMAIN last.before :
                  last.before[j].ticker # t => holdings[j] = last.before[j]

C3_Witness ==
    /\ last.op = "add_stock"
    /\ ValidAdd(last.args)
    /\ last.args.ticker = <<" ","A","A","P","L"," ">>
    /\ \E j \in Under(last.before, AAPL) : last.before[j].shares * 10 # last.args.shares.v
    /\ Cardinality(Under(holdings, AAPL)) = 1
    /\ Len(holdings) > 1

\* C4: remove_stock returns True exactly when the symbol was held.  When it was
\* not, the call warns "not found" and the holdings are unchanged; when it was,
\* the symbol is gone and the other entries are as before, in the same order.
C4_RemoveFrame ==
    last.op = "remove_stock" =>
        LET t == SymbolOf(last.args.ticker)
            b == last.before
        IN  /\ last.ret = (Under(b, t) # {})
            /\ Under(b, t) = {} =>
                  holdings = b /\ last.msg.level = "warning" /\ last.msg.ticker = t
            /\ \A k \in Under(b, t) :
                  /\ Under(holdings, t) = {}
                  /\ Len(holdings) = Len(b) - 1
                  /\ \A i \in DOMAIN holdings :
                        holdings[i] = IF i < k THEN b[i] ELSE b[i + 1]

C4_Witness ==
    /\ last.op = "remove_stock"
    /\ last.ret = TRUE
    /\ last.args.ticker = <<"a","a","p","l">>
    /\ Len(holdings) >= 2
    /\ Len(last.before) = Len(holdings) + 1

---------------------------------------------------------------------------
(* generate_signals on its own: one ticker's history drawn from a family of
   series, and calls of generate_signals *)

Deltas == { F(d) : d \in -MaxDelta..MaxDelta } \cup { NaN }

Lens ==
    { 0, 1, MinObservations - 1, MinObservations, LongWindow + 1, LongWindow + ExtraLen }

\* a pivotal day the series is too short to have carries no difference
WellFormed(feed) ==
    /\ feed.len < 1 => feed.d1 = F(0)
    /\ feed.len < 2 => feed.d2 = F(0)
    /\ feed.len < ShortWindow + 1 => feed.dS = F(0)
    /\ feed.len < LongWindow + 1 => feed.dL = F(0)

SignalFeeds ==
    { RaiseFeed }
    \cup { Feed("malformed", n, 0, F(0), F(0), F(0), F(0)) : n \in Lens }
    \cup { f \in { Feed("data", n, 1200, d1, d2, dS, dL) :
                     n \in Lens, d1 \in Deltas, d2 \in Deltas, dS \in Deltas, dL \in Deltas } :
             WellFormed(f) }

InitSignal == InitProgram /\ \E f \in SignalFeeds : market = [t \in {AAPL} |-> f]

NextSignal ==
    /\ ops < MaxSignalOps
    /\ \E ticker \in {AAPL, MSFT} : GenerateSignals(ticker)

SpecSignal == InitSignal /\ [][NextSignal]_vars

---------------------------------------------------------------------------
(* Claims about generate_signals, checked under SpecSignal *)

\* what the source answers for the ticker of the latest call
Asked == Quote(market, last.args.ticker)

PrevSMA50 == RollingMean(Closes(Asked), ShortWindow, Asked.len - 1)

PrevSMA200 == RollingMean(Closes(Asked), LongWindow, Asked.len - 1)

LatestSMA50 == RollingMean(Closes(Asked), ShortWindow, Asked.len)

LatestSMA200 == RollingMean(Closes(Asked), LongWindow, Asked.len)

\* the series passes the length guard and its four means are defined
FourDefined ==
    /\ Asked.kind = "data"
    /\ Asked.len >= MinObservations
    /\ ~PrevSMA50.nan /\ ~PrevSMA200.nan /\ ~LatestSMA50.nan /\ ~LatestSMA200.nan

\* C6: with the four means defined, generate_signals returns Buy/GoldenCross
\* iff previous SMA50 <= previous SMA200 and latest SMA50 > latest SMA200,
\* otherwise Sell/DeathCross iff previous SMA50 >= previous SMA200 and latest
\* SMA50 < latest SMA200, otherwise Hold/Neutral; a tie at the latest day is
\* always Hold.
C6_CrossoverRule ==
    (last.op = "generate_signals" /\ FourDefined) =>
        LET t == last.args.ticker
            buy == PrevSMA50.v <= PrevSMA200.v /\ LatestSMA50.v > LatestSMA200.v
            sell == PrevSMA50.v >= PrevSMA200.v /\ LatestSMA50.v < LatestSMA200.v
        IN  /\ buy <=> last.ret = Signal("Buy", "GoldenCross", t)
            /\ (~buy /\ sell) <=> last.ret = Signal("Sell", "DeathCross", t)
            /\ (~buy /\ ~sell) <=> last.ret = Signal("Hold", "Neutral", t)
            /\ LatestSMA50.v = LatestSMA200.v => last.ret.action = "Hold"

\* a Buy returned when the previous means were exactly equal
C6_Witness ==
    /\ last.op = "generate_signals"
    /\ FourDefined
    /\ PrevSMA50.v = PrevSMA200.v
    /\ LatestSMA50.v > LatestSMA200.v
    /\ last.ret.action = "Buy"

\* some close among the latest LongWindow days is missing
LatestUndefined == \E k \in 1..LongWindow : CloseFromEnd(Asked, k).nan

\* C8: generate_signals always returns a signal for the ticker asked; a source
\* error, or a frame with no closes, gives Hold/Error; fewer than 200
\* observations give Hold/Insufficient whatever they are; an undefined latest
\* SMA50 or SMA200 gives Hold/Invalid; none of these is ever Buy or Sell.
C8_DegradedIsHold ==
    last.op = "generate_signals" =>
        LET t == last.args.ticker
        IN  /\ last.ret.action \in {"Buy", "Sell", "Hold"}
            /\ last.ret.ticker = t
            /\ Asked.kind = "raise" => last.ret = Signal("Hold", "Error", t)
            /\ (Asked.kind = "malformed" /\ Asked.len >= MinObservations) =>
                  last.ret = Signal("Hold", "Error", t)
            /\ (Asked.kind # "raise" /\ Asked.len < MinObservations) =>
                  last.ret = Signal("Hold", "Insufficient", t)
            /\ (Asked.kind = "data" /\ Asked.len >= MinObservations /\ LatestUndefined) =>
                  last.ret = Signal("Hold", "Invalid", t)

C8_Witness ==
    /\ last.op = "generate_signals"
    /\ Asked.kind = "data"
    /\ Asked.len = MinObservations - 1
    /\ Asked.d1 = F(MaxDelta)
    /\ last.ret.reason = "Insufficient"

\* every close of the series is a number
AllDefined == \A k \in 1..Asked.len : ~CloseFromEnd(Asked, k).nan

\* C10: Buy or Sell is returned only for a series of at least 201
\* observations; for exactly 200 the previous SMA200 is undefined, and
\* whatever the prices are the result is Hold/Neutral.
C10_TwoHundredIsNeutral ==
    last.op = "generate_signals" =>
        /\ last.ret.action \in {"Buy", "Sell"} => Asked.len >= MinObservations + 1
        /\ (Asked.kind = "data" /\ Asked.len = MinObservations) =>
              /\ PrevSMA200.nan
              /\ AllDefined => last.ret = Signal("Hold", "Neutral", last.args.ticker)

\* 200 observations whose latest SMA50 is above the latest SMA200
C10_Witness ==
    /\ last.op = "generate_signals"
    /\ Asked.kind = "data"
    /\ Asked.len = MinObservations
    /\ Gt(LatestSMA50, LatestSMA200)
    /\ last.ret.reason = "Neutral"

---------------------------------------------------------------------------
(* Valuation: the store's operations and calculate_portfolio_value, for every
   answer of the source to the seed tickers *)

ValueAdds ==
    { << <<"a","a","p","l">>, Num(20), Num(1000), NoneVal >>,
      << <<"a","a","p","l">>, Num(20), NanArg, NoneVal >>,
      << TSLA, Num(20), Num(1000), NoneVal >> }

ValueRemoves == { AAPL, <<"m","s","f","t"," ">>, <<"g","o","o","g","l">> }

InitValue == InitProgram /\ market \in [Seeds -> CannedFeeds]

NextValue ==
    \/ /\ ops < MaxValueOps
       /\ \E a \in ValueAdds : AddStock(a[1], a[2], a[3], a[4])
    \/ /\ ops < MaxValueOps
       /\ \E ticker \in ValueRemoves : RemoveStock(ticker)
    \/ /\ ops < MaxValueOps
       /\ CalculatePortfolioValue

SpecValue == InitValue /\ [][NextValue]_vars

\* the source has a price for the ticker
Available(t) == Quote(market, t).kind = "data" /\ Quote(market, t).len > 0

\* that price: the close of the last day
PriceOf(t) == F(Quote(market, t).base + Quote(market, t).d1.v)

\* the positions whose price is available, in portfolio order
Priced == SelectSeq(holdings, LAMBDA e : Available(e.ticker))

RECURSIVE SumOf(_, _)
\* the sum of field f of the rows
SumOf(rows, f) ==
    IF rows = <<>> THEN F(0) ELSE FAdd(Head(rows)[f], SumOf(Tail(rows), f))

\* C5: calculate_portfolio_value returns one row per position whose price is
\* available, in portfolio order, with Value = shares x price and Profit =
\* (price - buy_price) x shares; the totals are the sums over the rows (0 and
\* no rows when nothing is priced); the holdings are not modified.
C5_Valuation ==
    last.op = "calculate_portfolio_value" =>
        /\ holdings = last.before
        /\ Len(valuation.df) = Len(Priced)
        /\ \A i \in DOMAIN valuation.df :
              LET row == valuation.df[i]
                  e == Priced[i]
              IN  /\ row.Ticker = e.ticker
                  /\ row.Shares = e.shares
                  /\ row.BuyPrice = e.buy_price
                  /\ row.CurrentPrice = PriceOf(e.ticker)
                  /\ row.Value = FScale(e.shares, PriceOf(e.ticker))
                  /\ row.Profit = FScale(e.shares, FSub(PriceOf(e.ticker), e.buy_price))
        /\ valuation.total_value = SumOf(valuation.df, "Value")
        /\ valuation.total_profit = SumOf(valuation.df, "Profit")
        /\ Priced = <<>> =>
              /\ valuation.df = <<>>
              /\ valuation.total_value = F(0)
              /\ valuation.total_profit = F(0)

\* some positions priced, some not
C5_Witness ==
    /\ last.op = "calculate_portfolio_value"
    /\ Len(valuation.df) >= 2
    /\ Len(valuation.df) < Len(holdings)
    /\ Keys(holdings) # Keys(SeedHoldings)
    /\ ~valuation.total_profit.nan
    /\ valuation.total_profit.v # 0

---------------------------------------------------------------------------
(* Notifications: the store's operations and check_notifications, for every
   answer of the source to the seed tickers *)

NotifyAdds ==
    { << <<"a","a","p","l">>, Num(20), Num(1000), NoneVal >>,
      << TSLA, Num(20), Num(1000), NoneVal >> }

InitNotify == InitProgram /\ market \in [Seeds -> CannedFeeds]

NextNotify ==
    \/ /\ ops < MaxNotifyOps
       /\ \E a \in NotifyAdds : AddStock(a[1], a[2], a[3], a[4])
    \/ /\ ops < MaxNotifyOps
       /\ \E ticker \in ValueRemoves : RemoveStock(ticker)
    \/ /\ ops < MaxNotifyOps
       /\ CheckNotifications

SpecNotify == InitNotify /\ [][NextNotify]_vars

\* C9: check_notifications on an empty portfolio returns exactly the one
\* informational entry and computes no signal; otherwise it returns one signal
\* per held ticker, the i-th for the i-th ticker of the holdings, whether or
\* not the ticker has a price.
C9_Notifications ==
    /\ [](last.op = "check_notifications" =>
            /\ holdings = last.before
            /\ holdings = <<>> => notifications = <<EmptyNote>>
            /\ holdings # <<>> =>
                  /\ Len(notifications) = Len(holdings)
                  /\ \A i \in DOMAIN holdings :
                        /\ notifications[i].ticker = holdings[i].ticker
                        /\ notifications[i].action \in {"Buy", "Sell", "Hold"})
    /\ [][(holdings = <<>> /\ last'.op = "check_notifications") =>
            signalCache' = signalCache]_vars

C9_Witness ==
    /\ last.op = "check_notifications"
    /\ Len(notifications) >= 2
    /\ Keys(holdings) # Keys(SeedHoldings)
    /\ \E i \in DOMAIN holdings : ~Available(holdings[i].ticker)
    /\ \E i \in DOMAIN holdings : notifications[i].action = "Buy"

---------------------------------------------------------------------------
(* Memoization: the seed portfolio, a source whose answers change, and time *)

InitCache == InitProgram /\ market \in [Seeds -> CannedFeeds]

NextCache ==
    \/ /\ ops < MaxCacheOps
       /\ \E t \in Seeds, feed \in CannedFeeds : SourceChange(t, feed)
    \/ /\ ops < MaxCacheOps
       /\ Tick
    \/ /\ ops < MaxCacheOps
       /\ CalculatePortfolioValue
    \/ /\ ops < MaxCacheOps
       /\ CheckNotifications

SpecCache == InitCache /\ [][NextCache]_vars

\* C7: a memoized unavailable price, or Hold/Error signal, is not kept beyond
\* a short time: when a report is made while the source answers for a ticker,
\* an unavailable or Error answer given for that ticker is at most ShortTTL old.
C7_FailuresExpire ==
    /\ last.op = "calculate_portfolio_value" =>
          \A i \in DOMAIN holdings :
              LET t == holdings[i].ticker
              IN  (Available(t) /\ IsNone(priceCache[t].value)) =>
                      now - priceCache[t].at <= ShortTTL
    /\ last.op = "check_notifications" =>
          \A i \in DOMAIN holdings :
              LET t == holdings[i].ticker
              IN  (Available(t) /\ notifications[i].reason = "Error") =>
                      now - signalCache[t].at <= ShortTTL

====
